---- MODULE Spec2Model ----
(***************************************************************************)
(* Model of the telemetry playback application:                            *)
(*   frontend/react-app/src/App.tsx              (selection, trace load,   *)
(*                                                coordinate mapping)      *)
(*   frontend/react-app/src/components/TrackMap.tsx (playback engine)      *)
(*                                                                         *)
(* Units.  Wall-clock time (performance.now()) is in milliseconds and      *)
(* advances one second per Tick.  Telemetry time is counted in quarters    *)
(* of a second and the speed multiplier in quarters (0.25x = 1, 1x = 4),   *)
(* so that startTel + elapsedSec * speed is an exact integer.  Positions   *)
(* and the interpolation fraction are exact rationals <<num, den>>.        *)
(* Array indices are the 0-based indices of the source.                    *)
(***************************************************************************)
EXTENDS Integers, Sequences, FiniteSets, TLC

VARIABLES
    now,                \* performance.now(), in ms
    selectedDriverCode, \* App state
    appModule,          \* App telemetryModule: a driver code, or Null
    tmModule,           \* TrackMap telemetryModule: a driver code, or Null
    loads,              \* dynamic imports in flight
    selGen,             \* number of driver selections made so far
    currentIndex,       \* TrackMap state
    playing,            \* TrackMap state
    speed,              \* TrackMap state, in quarters
    playStartWall,      \* playStartWallRef.current: None or <<ms>>
    playStartTel,       \* playStartTelRef.current: None or <<t>>
    marker,             \* markerRef.current: None or <<<<lat, lon>>>>
    raf,                \* rafId of the last effect run: None or <<closure>>
    arrived,            \* history: a stale import settled in the last operation
    tStep,              \* history: t of the last step (line 319): None or <<t>>
    gAnchor,            \* history: the anchor as taken when the refs were set
    playFrom,           \* history: the seek a running playback started from
    prePause,           \* history: the anchor in the refs was set before the last pause
    seeked,             \* history: the slider was moved and nothing ran since:
                        \* None or <<playing before the move>>
    fn,                 \* inputs and result of the pure helpers (SpecFn, SpecSolve)
    reg,                \* the offline registration run (SpecReg)
    cornerTransform,    \* the imported corner_transform.json
    frames,             \* callbacks in the browser's animation-frame queue
    mounted             \* the application is mounted

vars == <<now, selectedDriverCode, appModule, tmModule, loads, selGen,
          currentIndex, playing, speed, playStartWall, playStartTel, marker,
          raf, arrived, tStep, gAnchor, playFrom, prePause, seeked, fn, reg,
          cornerTransform, frames, mounted>>

appVars == <<now, selectedDriverCode, appModule, tmModule, loads, selGen,
             currentIndex, playing, speed, playStartWall, playStartTel, marker,
             raf, arrived, tStep, gAnchor, playFrom, prePause, seeked, reg,
             cornerTransform, frames, mounted>>

-----------------------------------------------------------------------------
(* Bounds of the model *)

MaxWall == 2        \* seconds of wall-clock time explored
MaxSelects == 1     \* driver selections explored
MaxLen == 4         \* longest time array given to the pure helpers
MaxVal == 3         \* largest sample time / position given to the pure helpers
MaxPts == 2         \* most point pairs given to the similarity solver
MaxCoord == 1       \* largest coordinate of a reference point

(* Program constants *)

MsPerSec == 1000    \* elapsedSec = (performance.now() - startWall) / 1000
MaxIter == 20       \* for (let iter = 0; iter < 20; iter++)
SpeedDen == 4       \* the finest speed option is 0.25x

-----------------------------------------------------------------------------
(* Values *)

Null == "null"
None == <<>>
Some(x) == <<x>>

Max2(a, b) == IF a >= b THEN a ELSE b
Min2(a, b) == IF a <= b THEN a ELSE b
Abs(a) == IF a < 0 THEN 0 - a ELSE a

RECURSIVE GCD(_, _)
GCD(a, b) == IF b = 0 THEN a ELSE GCD(b, a % b)

\* The rational n/d in lowest terms with a positive denominator.
Rat(n, d) ==
    LET g == GCD(Abs(n), Abs(d))
        sgn == IF d < 0 THEN 0 - 1 ELSE 1
    IN  <<(sgn * n) \div g, (sgn * d) \div g>>

\* JS array read: arr[k]
At(arr, k) == arr[k + 1]
InRange(arr, k) == k >= 0 /\ k < Len(arr)

-----------------------------------------------------------------------------
(* Data: driver roster, lap importers, lap files, transform configuration *)

\* Codes offered by the driver picker (drivers.json); "ZZZ" stands for a
\* roster entry that has no lap importer.
Codes == {"VER", "ALB", "BOR", "ZZZ"}

\* Keys of lapImporters.
Importers == {"VER", "ALB", "BOR"}

\* The `tel` object of a lap module.  Times in quarter seconds; `speed`
\* stands for the scalar metrics, which the view all reads the same way.
TelData(code) ==
    IF code = "VER"
    THEN [time |-> <<0, 4, 8>>, x |-> <<0, 2, 2>>, y |-> <<0, 0, 2>>,
          speed |-> <<0, 40, 80>>]
    ELSE IF code = "ALB"
    THEN [time |-> <<0, 2>>,    x |-> <<0, 2>>,    y |-> <<0, 2>>,
          speed |-> <<60, 20>>]
    \* a lap recorded without a `time` array
    ELSE [x |-> <<2, 0>>, y |-> <<0, 2>>, speed |-> <<30, 50>>]

\* telemetry.time is present
HasTime(tel) == tel # Null /\ "time" \in DOMAIN TelData(tel)

\* The transform of the bundled corner_transform.json (here a quarter
\* turn, scale 2).
CornerTransform == [s |-> 2, cos |-> 0, sin |-> 1, tx |-> 4, ty |-> 0]

\* L.CRS.EPSG3857.unproject(L.point(px, py)), read as [lat, lng]: the
\* library maps the y axis to latitude and the x axis to longitude.
Unproject(px, py) == <<py, px>>

\* App.telemetryLatLngs: the geographic sequence of a loaded trace,
\* [] when no telemetry is loaded.
TelemetryLatLngs(appTel) ==
    IF appTel = Null THEN <<>>
    ELSE LET xs == TelData(appTel).x
             ys == TelData(appTel).y
             t  == cornerTransform.transform
         IN  [k \in 1..Len(xs) |->
                 Unproject(t.s * (t.cos * xs[k] - t.sin * ys[k]) + t.tx,
                           t.s * (t.sin * xs[k] + t.cos * ys[k]) + t.ty)]

\* TrackMap.telemetry = telemetryProp ?? (telemetryModule.tel or null)
Telemetry(app, tm) == IF app # Null THEN app ELSE tm

\* telemetry.time, [] when there is no telemetry
Times(tel) == IF HasTime(tel) THEN TelData(tel).time ELSE <<>>

-----------------------------------------------------------------------------
(* Playback helpers *)

RECURSIVE BinSearch(_, _, _, _)
\* The while loop of findSegmentIndex.
BinSearch(arr, t, lo, hi) ==
    IF lo > hi THEN Max2(0, Min2(Len(arr) - 2, lo - 1))
    ELSE LET mid == (lo + hi) \div 2
         IN  IF At(arr, mid) <= t /\ InRange(arr, mid + 1) /\ t <= At(arr, mid + 1)
             THEN mid
             ELSE IF At(arr, mid) < t
                  THEN BinSearch(arr, t, mid + 1, hi)
                  ELSE BinSearch(arr, t, lo, mid - 1)

\* Mutant: the upper boundary clamps to the last sample instead of the
\* last segment.
findSegmentIndexLastSample(arr, t) ==
    LET n == Len(arr)
    IN  IF n = 0 THEN 0
        ELSE IF t <= At(arr, 0) THEN 0
        ELSE IF t >= At(arr, n - 1) THEN Max2(0, n - 1)
        ELSE BinSearch(arr, t, 0, n - 1)

\* findSegmentIndex(t) on telemetry.time = arr ([] when there is none)
findSegmentIndex(arr, t) ==
    LET n == Len(arr)
    IN  IF n = 0 THEN 0
        ELSE IF t <= At(arr, 0) THEN 0
        ELSE IF t >= At(arr, n - 1) THEN Max2(0, n - 2)
        ELSE BinSearch(arr, t, 0, n - 1)

\* targetTime = startTel + elapsedSec * (speedRef.current || 1)
TargetTime(startTel, startWall, wall, sp) ==
    startTel + ((wall - startWall) * (IF sp = 0 THEN SpeedDen ELSE sp)) \div MsPerSec

\* t = Math.max(times[0], Math.min(lastTime, targetTime))
ClampT(times, target) ==
    Max2(At(times, 0), Min2(At(times, Len(times) - 1), target))

\* Mutant: the fraction is taken over the sample time, not the interval.
AlphaOverT1(t, t0, t1) == IF t1 = t0 THEN <<0, 1>> ELSE Rat(t - t0, t1)

\* alpha = t1 === t0 ? 0 : (t - t0) / (t1 - t0)
Alpha(t, t0, t1) == IF t1 = t0 THEN <<0, 1>> ELSE Rat(t - t0, t1 - t0)

\* p0 + alpha * (p1 - p0)
Lerp(p0, p1, alpha) == Rat(p0 * alpha[2] + alpha[1] * (p1 - p0), alpha[2])

\* Mutant: the HUD index is the segment index.
ApproxIndexFloor(i, alpha) == i

\* Math.round(i + alpha) = floor(i + alpha + 1/2)
ApproxIndex(i, alpha) == (2 * (i * alpha[2] + alpha[1]) + alpha[2]) \div (2 * alpha[2])

\* What one step computes from a time array, a position array and a
\* target time (lines 316-336): the clamped time, the segment, the
\* fraction, the interpolated position and the HUD index.  `thrown`
\* stands for the TypeError of p0[0] when telemetryLatLngs[i] is undefined.
\* Each const of the source is computed once and then used by value:
\* t, then i from t, then alpha from t and the times at i and i + 1.
StepCalc(times, lls, target) ==
    LET withAlpha[t \in Int, i \in Int, a \in Int \X Int] ==
            IF ~InRange(lls, i)
            THEN [t |-> t, i |-> i, alpha |-> a, thrown |-> TRUE,
                  pos |-> None, index |-> 0]
            ELSE LET p0 == At(lls, i)
                     p1 == IF InRange(lls, i + 1) THEN At(lls, i + 1) ELSE p0
                 IN  [t |-> t, i |-> i, alpha |-> a, thrown |-> FALSE,
                      pos |-> Some(<<Lerp(p0[1], p1[1], a), Lerp(p0[2], p1[2], a)>>),
                      index |-> Max2(0, Min2(Len(times) - 1, ApproxIndex(i, a)))]
        withSegment[t \in Int, i \in Int] ==
            LET t0 == At(times, i)
                t1 == IF InRange(times, i + 1) THEN At(times, i + 1) ELSE t0
            IN  withAlpha[t, i, Alpha(t, t0, t1)]
        withTime[t \in Int] == withSegment[t, findSegmentIndex(times, t)]
    IN  withTime[ClampT(times, target)]

\* roundDisplay(v) for a finite number v = n/d: Math.round(v)
RoundDisplay(r) == (2 * r[1] + r[2]) \div (2 * r[2])

\* The Speed card: roundDisplay(telemetry.speed?.[currentIndex]); None
\* when the cards are not rendered or the card shows '-'.
HudSpeed(tel, idx) ==
    IF tel = Null \/ ~InRange(TelData(tel).speed, idx) THEN None
    ELSE Some(RoundDisplay(<<At(TelData(tel).speed, idx), 1>>))

-----------------------------------------------------------------------------
(* Effects of TrackMap that run after a render *)

\* The marker sits on a sample: [lat, lon] as exact rationals.
OnSample(p) == <<<<p[1], 1>>, <<p[2], 1>>>>

\* Marker effect (deps telemetryLatLngs, currentIndex): the cleanup
\* removes the marker of the previous run; the run creates one at
\* telemetryLatLngs[currentIndex], unless there are no positions or the
\* read of latlng[0] throws inside the try.
MarkerEffect(lls, idx) ==
    IF Len(lls) = 0 \/ ~InRange(lls, idx) THEN None ELSE Some(OnSample(At(lls, idx)))

\* Mutant: the RAF effect returns early only when nothing is loaded.
NoPlaybackDataNullOnly(tel) == tel = Null

\* if (!telemetry || !telemetry.time || telemetry.time.length === 0) return
NoPlaybackData(tel) == ~HasTime(tel) \/ Len(TelData(tel).time) = 0

\* The members of an option.
ToSet(o) == IF o = None THEN {} ELSE {o[1]}

\* Mutant: the cleanup of the RAF effect leaves the callback scheduled.
CancelRafNot(r) == r

\* Cleanup of the RAF effect: if (rafId) cancelAnimationFrame(rafId)
CancelRaf(r) == None

\* Mutant: the telemetry anchor is the start of the trace.
TelAtStart(times, idx) == 0

\* telemetry.time[currentIndex] ?? 0
TelAt(times, idx) == IF InRange(times, idx) THEN At(times, idx) ELSE 0

\* Mutant: the anchor is taken anew on every run of the effect.
AnchorInitAlways(cur, fresh) == Some(fresh)

\* ref.current = ref.current ?? fresh
AnchorInit(cur, fresh) == IF cur # None THEN cur ELSE Some(fresh)

\* RAF effect (deps playing, telemetry, telemetryLatLngs, currentIndex),
\* run with the values of the new render; rafIn is the callback pending
\* when the cleanup of the previous run is called.
RafEffect(p2, tel2, app2, idx2, rafIn) ==
    LET times == Times(tel2)
        cleaned == CancelRaf(rafIn)
    IN  IF NoPlaybackData(tel2)
        THEN [raf |-> cleaned, wall |-> playStartWall, tel |-> playStartTel]
        ELSE IF p2
        THEN [raf  |-> Some([playing |-> p2, tel |-> tel2, app |-> app2, idx |-> idx2]),
              wall |-> AnchorInit(playStartWall, now),
              tel  |-> AnchorInit(playStartTel, TelAt(times, idx2))]
        ELSE [raf |-> cleaned, wall |-> None, tel |-> None]

\* A render of TrackMap with new state (p2, app2, tm2, idx2), followed by
\* the effects whose dependencies changed.  markerIn and rafIn are the
\* marker and the pending callback as the operation left them.
Render(p2, app2, tm2, idx2, markerIn, rafIn) ==
    LET tel1 == Telemetry(appModule, tmModule)
        tel2 == Telemetry(app2, tm2)
        markerDeps == app2 # appModule \/ idx2 # currentIndex
        rafDeps == \/ p2 # playing
                   \/ tel2 # tel1
                   \/ app2 # appModule
                   \/ idx2 # currentIndex
    IN  \E r \in {RafEffect(p2, tel2, app2, idx2, rafIn)} :
        /\ playing' = p2
        /\ appModule' = app2
        /\ tmModule' = tm2
        /\ currentIndex' = idx2
        /\ marker' = IF markerDeps
                     THEN MarkerEffect(TelemetryLatLngs(app2), idx2)
                     ELSE markerIn
        /\ raf' = IF rafDeps THEN r.raf ELSE rafIn
        /\ frames' = IF rafDeps
                     THEN (frames \ ToSet(rafIn)) \cup ToSet(CancelRaf(rafIn))
                              \cup ToSet(r.raf)
                     ELSE frames
        /\ playStartWall' = IF rafDeps THEN r.wall ELSE playStartWall
        /\ playStartTel' = IF rafDeps THEN r.tel ELSE playStartTel
        /\ gAnchor' = IF rafDeps /\ playStartWall = None /\ r.wall # None
                      THEN Some([wall |-> r.wall[1], tel |-> r.tel[1]])
                      ELSE IF rafDeps /\ r.wall = None THEN None
                      ELSE gAnchor
        /\ prePause' = IF rafDeps /\ r.wall = None THEN FALSE
                       ELSE IF playing /\ ~p2 THEN playStartWall # None
                       ELSE prePause

-----------------------------------------------------------------------------
(* Playback operations *)

\* Play button: setPlaying(p => !p)
TogglePlay ==
    LET times == Times(Telemetry(appModule, tmModule))
    IN  /\ mounted
        /\ Render(~playing, appModule, tmModule, currentIndex, marker, raf)
        /\ arrived' = None
        /\ playFrom' =
             IF playing THEN None
             ELSE IF seeked # None /\ InRange(times, currentIndex)
             THEN Some([t |-> At(times, currentIndex), wall |-> now])
             ELSE None
        /\ seeked' = None
        /\ UNCHANGED <<now, selectedDriverCode, loads, selGen, speed, tStep, fn, reg,
                   cornerTransform, mounted>>

\* Values the range input can take: 0 .. n-1 of the longest lap.
SliderValues == 0..(Len(TelData("VER").time) - 1)

\* Mutant: the slider leaves the playing flag alone.
SeekPlayingKeep(p) == p

\* Range input onChange: ...; setPlaying(false)
SeekPlaying(p) == FALSE

\* Range input onChange: setCurrentIndex(Number(e.target.value)); setPlaying(false).
\* The input is rendered when telemetry && telemetry.time; its values are
\* 0 .. max(0, n-1) and it fires when the value changes.
Seek(idx) ==
    LET tel == Telemetry(appModule, tmModule)
        top == Max2(0, Len(Times(tel)) - 1)
    IN  /\ mounted
        /\ HasTime(tel)
        /\ idx \in 0..top
        /\ idx # Min2(currentIndex, top)
        /\ Render(SeekPlaying(playing), appModule, tmModule, idx, marker, raf)
        /\ arrived' = None
        /\ seeked' = Some(playing)
        /\ tStep' = None
        /\ playFrom' = None
        /\ UNCHANGED <<now, selectedDriverCode, loads, selGen, speed, fn, reg,
                   cornerTransform, mounted>>

\* Speed options modelled: 0.25x, 1x, 2x
Speeds == {1, SpeedDen, 2 * SpeedDen}

\* Mutant: the speed change also rewrites the loaded transform.
SetSpeedRecompute(s) ==
    /\ mounted
    /\ s \in Speeds
    /\ s # speed
    /\ speed' = s
    /\ arrived' = None
    /\ cornerTransform' = [cornerTransform EXCEPT !.transform.s = s]
    /\ UNCHANGED <<now, selectedDriverCode, appModule, tmModule, loads, selGen,
                   currentIndex, playing, playStartWall, playStartTel, marker,
                   raf, tStep, gAnchor, playFrom, prePause, seeked, fn, reg,
                   frames, mounted>>

\* Speed select onChange: setSpeed(Number(e.target.value)); the render
\* stores it in speedRef.current.  No effect depends on speed.
SetSpeed(s) ==
    /\ mounted
    /\ s \in Speeds
    /\ s # speed
    /\ speed' = s
    /\ arrived' = None
    /\ UNCHANGED <<now, selectedDriverCode, appModule, tmModule, loads, selGen,
                   currentIndex, playing, playStartWall, playStartTel, marker,
                   raf, tStep, gAnchor, playFrom, prePause, seeked, fn, reg,
                   cornerTransform, frames, mounted>>

\* The animation-frame callback `step` runs (lines 309-339) with the
\* values its closure captured, then the render its setCurrentIndex
\* causes.
Step ==
    /\ \E c \in frames :
       \E times \in {Times(c.tel)} :
       IF ~c.playing \/ Len(times) = 0
       \* returns at once, or throws on the read of an absent time array
       THEN /\ raf' = IF raf = Some(c) THEN None ELSE raf
            /\ frames' = frames \ {c}
            /\ UNCHANGED <<appModule, tmModule, currentIndex, playing,
                           playStartWall, playStartTel, marker, tStep,
                           gAnchor, prePause>>
       ELSE \E startWall \in {IF playStartWall # None THEN playStartWall[1] ELSE now},
               startTel \in {IF playStartTel # None THEN playStartTel[1]
                             ELSE TelAt(times, c.idx)},
               lls \in {TelemetryLatLngs(c.app)} :
            \E target \in {TargetTime(startTel, startWall, now, speed)} :
            \E k \in {StepCalc(times, lls, target)} :
            /\ tStep' = Some(k.t)
            /\ IF k.thrown
               THEN /\ raf' = IF raf = Some(c) THEN None ELSE raf
                    /\ frames' = frames \ {c}
                    /\ UNCHANGED <<appModule, tmModule, currentIndex, playing,
                                   playStartWall, playStartTel, marker, gAnchor,
                                   prePause>>
               ELSE Render(playing, appModule, tmModule, k.index,
                           IF marker # None THEN Some(k.pos[1]) ELSE marker,
                           Some(c))
    /\ arrived' = None
    /\ UNCHANGED <<now, selectedDriverCode, loads, selGen, speed, playFrom,
                   seeked, fn, reg, cornerTransform, mounted>>

\* One second of wall-clock time passes.
Tick ==
    /\ now < MaxWall * MsPerSec
    /\ now' = now + MsPerSec
    /\ arrived' = None
    /\ UNCHANGED <<selectedDriverCode, appModule, tmModule, loads, selGen,
                   currentIndex, playing, speed, playStartWall, playStartTel,
                   marker, raf, tStep, gAnchor, playFrom, prePause, seeked, fn, reg,
                   cornerTransform, frames, mounted>>

-----------------------------------------------------------------------------
(* Driver selection and trace loads *)

\* A dynamic import started by `owner` ("app" or "tm") for `code`;
\* `cancelled` is the flag of the effect run that started it; `stale`
\* records that a newer selection was made after it started.
Load(owner, code) ==
    [owner |-> owner, code |-> code, cancelled |-> FALSE, stale |-> FALSE]

\* A newer selection is made: every import in flight is now stale.
Outdated(ls) == {[l EXCEPT !.stale = TRUE] : l \in ls}

\* Cleanup of a load effect: cancelled = true for the run's import.  An
\* import of the same component whose run was cleaned up before is taken
\* to have settled by now: its callback returns at once on `cancelled`.
CancelOwner(ls, who) ==
    {l \in ls : l.owner # who}
    \cup {[l EXCEPT !.cancelled = TRUE] :
             l \in {m \in ls : m.owner = who /\ ~m.cancelled}}

\* TrackMap load effect (deps selectedDriverCode, telemetryProp).
TmLoadEffect(sel2, app2, tmIn, ls) ==
    LET ls1 == CancelOwner(ls, "tm")
    IN  IF app2 # Null THEN [tm |-> tmIn, loads |-> ls1]
        ELSE IF sel2 \notin Importers THEN [tm |-> Null, loads |-> ls1]
        ELSE [tm |-> tmIn, loads |-> ls1 \cup {Load("tm", sel2)}]

\* App load effect (deps selectedDriverCode).
AppLoadEffect(sel2, appIn, ls) ==
    LET ls1 == CancelOwner(ls, "app")
    IN  IF sel2 \notin Importers THEN [app |-> Null, loads |-> ls1]
        ELSE [app |-> appIn, loads |-> ls1 \cup {Load("app", sel2)}]

\* Driver select onChange: onSelectDriver(code).  The child's effects run
\* before the parent's; when the App effect clears its telemetry, the
\* TrackMap effect runs again with telemetryProp = null.
Select(code) ==
    /\ mounted
    /\ code \in Codes
    /\ code # selectedDriverCode
    /\ selGen < MaxSelects
    /\ LET a == TmLoadEffect(code, appModule, tmModule, Outdated(loads))
           b == AppLoadEffect(code, appModule, a.loads)
           c == IF b.app # appModule
                THEN TmLoadEffect(code, b.app, a.tm, b.loads)
                ELSE [tm |-> a.tm, loads |-> b.loads]
           changed == Telemetry(b.app, c.tm) # Telemetry(appModule, tmModule)
       IN  /\ selectedDriverCode' = code
           /\ selGen' = selGen + 1
           /\ loads' = c.loads
           /\ Render(playing, b.app, c.tm, currentIndex, marker, raf)
           /\ arrived' = None
           /\ tStep' = IF changed THEN None ELSE tStep
           /\ playFrom' = None
    /\ seeked' = None
    /\ UNCHANGED <<now, speed, fn, reg,
                   cornerTransform, mounted>>

\* Mutant: a result is committed whether or not its effect was cleaned up.
CommittableAlways(l) == TRUE

\* if (cancelled) return / if (!cancelled) ...
Committable(l) == ~l.cancelled

\* The promise of a dynamic import settles: resolved with the lap module
\* (ok) or rejected.
LoadDone(l, ok) ==
    /\ l \in loads
    /\ LET rest == loads \ {l}
           val == IF ok THEN l.code ELSE Null
           commit == Committable(l)
           app2 == IF commit /\ l.owner = "app" THEN val ELSE appModule
           tm1 == IF commit /\ l.owner = "tm" THEN val ELSE tmModule
           e == IF app2 # appModule
                THEN TmLoadEffect(selectedDriverCode, app2, tm1, rest)
                ELSE [tm |-> tm1, loads |-> rest]
           changed == Telemetry(app2, e.tm) # Telemetry(appModule, tmModule)
       IN  /\ loads' = e.loads
           /\ Render(playing, app2, e.tm, currentIndex, marker, raf)
           /\ arrived' = IF l.stale THEN Some([committed |-> commit]) ELSE None
           /\ tStep' = IF changed THEN None ELSE tStep
           /\ playFrom' = IF changed THEN None ELSE playFrom
           /\ seeked' = IF changed THEN None ELSE seeked
    /\ UNCHANGED <<now, selectedDriverCode, selGen, speed, fn, reg,
                   cornerTransform, mounted>>

\* The application is torn down: React runs the cleanup of every effect.
\* The RAF cleanup cancels its callback and the load cleanups set their
\* cancelled flags; imports in flight still settle, into nothing.
Unmount ==
    /\ mounted
    /\ mounted' = FALSE
    /\ raf' = CancelRaf(raf)
    /\ frames' = (frames \ ToSet(raf)) \cup ToSet(CancelRaf(raf))
    /\ loads' = CancelOwner(CancelOwner(loads, "app"), "tm")
    /\ arrived' = None
    /\ UNCHANGED <<now, selectedDriverCode, appModule, tmModule, selGen,
                   currentIndex, playing, speed, playStartWall, playStartTel,
                   marker, tStep, gAnchor, playFrom, prePause, seeked, fn, reg,
                   cornerTransform>>

-----------------------------------------------------------------------------
(* The application *)

FnIdle == [arr |-> <<>>, pos |-> <<>>, t |-> 0, seg |-> None, calc |-> None]

\* After the first render and its effects: VER selected, both components
\* have started their import, nothing is loaded, playback is stopped.
AppInit ==
    /\ now = 0
    /\ selectedDriverCode = "VER"
    /\ appModule = Null
    /\ tmModule = Null
    /\ loads = {Load("app", "VER"), Load("tm", "VER")}
    /\ selGen = 0
    /\ currentIndex = 0
    /\ playing = FALSE
    /\ speed = SpeedDen
    /\ playStartWall = None
    /\ playStartTel = None
    /\ marker = None
    /\ raf = None
    /\ arrived = None
    /\ tStep = None
    /\ gAnchor = None
    /\ playFrom = None
    /\ prePause = FALSE
    /\ seeked = None
    /\ cornerTransform = [created_at |-> "toISOString", transform |-> CornerTransform]
    /\ frames = {}
    /\ mounted = TRUE

\* scripts/compute_transform.js has not been run.
RegIdle == [pc |-> "idle"]

Init == AppInit /\ fn = FnIdle /\ reg = RegIdle

Next ==
    \/ TogglePlay
    \/ \E idx \in SliderValues : Seek(idx)
    \/ \E s \in Speeds : SetSpeed(s)
    \/ Step
    \/ Tick
    \/ \E code \in Codes : Select(code)
    \/ \E l \in loads, ok \in BOOLEAN : LoadDone(l, ok)
    \/ Unmount

Spec == Init /\ [][Next]_vars

\* The browser runs a requested animation-frame callback unless it is
\* cancelled first, and the promise of a dynamic import settles.
SpecLive ==
    /\ Spec
    /\ WF_vars(Step)
    /\ WF_vars(\E l \in loads, ok \in BOOLEAN : LoadDone(l, ok))

-----------------------------------------------------------------------------
(* The pure helpers of the playback engine on bounded inputs *)

\* Non-decreasing time arrays of length 0..MaxLen over 0..MaxVal.
TimeArrays ==
    UNION {{a \in [1..n -> 0..MaxVal] : \A k \in 1..(n - 1) : a[k] <= a[k + 1]}
           : n \in 0..MaxLen}

\* A position array as long as the time array: pa at the even samples,
\* pb at the odd ones, so that a segment runs between any two values.
Positions(n, pa, pb) == [k \in 1..n |-> IF k % 2 = 1 THEN pa ELSE pb]

\* [lat, lon] pairs for a position array.
AsLatLngs(pos) == [k \in 1..Len(pos) |-> <<pos[k], MaxVal - pos[k]>>]

FnInit ==
    fn \in {[arr |-> a, pos |-> Positions(Len(a), pa, pb), t |-> t,
             seg |-> None, calc |-> None] :
            a \in TimeArrays, pa \in 0..MaxVal, pb \in 0..MaxVal,
            t \in (0 - 1)..(MaxVal + 1)}

\* findSegmentIndex(t) is called on the time array.
FindSegment ==
    /\ fn.seg = None
    /\ fn' = [fn EXCEPT !.seg = Some(findSegmentIndex(fn.arr, fn.t))]
    /\ UNCHANGED appVars

\* The body of a step is run for target time t (the effect schedules
\* steps only for a non-empty time array).
Interpolate ==
    /\ fn.calc = None
    /\ Len(fn.arr) > 0
    /\ fn' = [fn EXCEPT !.calc = Some(StepCalc(fn.arr, AsLatLngs(fn.pos), fn.t))]
    /\ UNCHANGED appVars

InitFn == AppInit /\ FnInit /\ reg = RegIdle

NextFn == FindSegment \/ Interpolate

SpecFn == InitFn /\ [][NextFn]_vars

-----------------------------------------------------------------------------
(* Numbers of scripts/compute_transform.js: exact rationals <<n, d>>, and  *)
(* signed square roots of rationals for Math.hypot, Math.cos, Math.sin     *)

QInt(n) == <<n, 1>>
QNeg(a) == <<0 - a[1], a[2]>>

\* a + b, over the least common denominator
QAdd(a, b) ==
    LET g == GCD(a[2], b[2])
    IN  Rat(a[1] * (b[2] \div g) + b[1] * (a[2] \div g), (a[2] \div g) * b[2])

QSub(a, b) == QAdd(a, QNeg(b))

\* a * b, cancelling across before multiplying
QMul(a, b) ==
    LET g1 == GCD(Abs(a[1]), b[2])
        g2 == GCD(Abs(b[1]), a[2])
    IN  IF a[1] = 0 \/ b[1] = 0 THEN <<0, 1>>
        ELSE <<(a[1] \div g1) * (b[1] \div g2), (a[2] \div g2) * (b[2] \div g1)>>

\* a / b; a zero divisor gives the non-finite <<n, 0>> (0/0 is NaN)
QDiv(a, b) ==
    IF b[1] = 0 THEN <<a[1], 0>>
    ELSE QMul(a, IF b[1] < 0 THEN <<0 - b[2], 0 - b[1]>> ELSE <<b[2], b[1]>>)

QFinite(a) == a[2] # 0

QLess(a, b) == a[1] * b[2] < b[1] * a[2]
QAbs(a) == <<Abs(a[1]), a[2]>>
QMin(a, b) == IF QLess(b, a) THEN b ELSE a
QMax(a, b) == IF QLess(a, b) THEN b ELSE a

RECURSIVE QSum(_)
QSum(qs) == IF Len(qs) = 0 THEN <<0, 1>> ELSE QAdd(Head(qs), QSum(Tail(qs)))

RECURSIVE SqrtBetween(_, _, _)
\* The integer root of the perfect square n, searched in lo..hi.
SqrtBetween(n, lo, hi) ==
    IF lo >= hi THEN lo
    ELSE LET mid == (lo + hi) \div 2
         IN  IF mid * mid >= n THEN SqrtBetween(n, lo, mid)
             ELSE SqrtBetween(n, mid + 1, hi)

ISqrt(n) == SqrtBetween(n, 0, Min2(n, 46340))

\* The real number +/- sqrt(sq), sq a rational >= 0.
Root(neg, sq) == [neg |-> neg /\ sq[1] # 0, sq |-> sq]

\* A rational as such a real.
RootOfQ(q) == Root(q[1] < 0, QMul(q, q))

\* The product of two such reals when it is rational (as s * cos is).
RootTimes(r1, r2) ==
    LET p == QMul(r1.sq, r2.sq)
        v == <<ISqrt(p[1]), ISqrt(p[2])>>
    IN  IF r1.neg # r2.neg THEN QNeg(v) ELSE v

\* Math.hypot(a, b)
Hypot(a, b) == Root(FALSE, QAdd(QMul(a, a), QMul(b, b)))

\* Math.cos(Math.atan2(im, re)) = re / hypot(re, im), 1 at the origin
CosAtan2(im, re) ==
    IF im[1] = 0 /\ re[1] = 0 THEN Root(FALSE, <<1, 1>>)
    ELSE Root(re[1] < 0, QDiv(QMul(re, re), QAdd(QMul(re, re), QMul(im, im))))

\* Mutant: the sine loses its sign.
SinAtan2Unsigned(im, re) ==
    IF im[1] = 0 /\ re[1] = 0 THEN Root(FALSE, <<0, 1>>)
    ELSE Root(FALSE, QDiv(QMul(im, im), QAdd(QMul(re, re), QMul(im, im))))

\* Math.sin(Math.atan2(im, re)) = im / hypot(re, im), 0 at the origin
SinAtan2(im, re) ==
    IF im[1] = 0 /\ re[1] = 0 THEN Root(FALSE, <<0, 1>>)
    ELSE Root(im[1] < 0, QDiv(QMul(im, im), QAdd(QMul(re, re), QMul(im, im))))

\* A point {x, y} with integer coordinates.
Pt(x, y) == [x |-> QInt(x), y |-> QInt(y)]

-----------------------------------------------------------------------------
(* App.tsx / TrackMap.tsx: the coordinate mapper with its fallback *)

RECURSIVE MinOf(_)
\* Math.min(...xs) of a non-empty array
MinOf(xs) == IF Len(xs) = 1 THEN xs[1] ELSE Min2(xs[1], MinOf(Tail(xs)))
RECURSIVE MaxOf(_)
\* Math.max(...xs) of a non-empty array
MaxOf(xs) == IF Len(xs) = 1 THEN xs[1] ELSE Max2(xs[1], MaxOf(Tail(xs)))

\* mapXtoLon / mapYtoLat: the linear map of [lo, hi] onto [glo, ghi], the
\* middle of the target when the source interval is a point.
MapAxis(v, lo, hi, glo, ghi) ==
    IF hi = lo THEN Rat(glo + ghi, 2)
    ELSE QAdd(QMul(Rat(v - lo, hi - lo), QInt(ghi - glo)), QInt(glo))

\* Mutant: every element is computed from the first y sample.
SampleYFirst(ys, i) == ys[1]

\* const y = ys[i]
SampleY(ys, i) == ys[i]

\* Mutant: the configuration is never found to hold a transform.
TransformOfNever(cfg) == None

\* (cornerTransform && cornerTransform.transform) ? cornerTransform.transform : null
TransformOf(cfg) == IF "transform" \in DOMAIN cfg THEN Some(cfg.transform) ELSE None

\* The memo body of telemetryLatLngs for a trace with x and y arrays:
\* cfg is corner_transform.json, geo the coordinates [lon, lat] of the
\* first feature of the reference polyline (None when there is no
\* feature).  Elements are [lat, lng].
telemetryLatLngs(xs, ys, cfg, geo) ==
    LET t == TransformOf(cfg)
    IN  IF t # None
        THEN [i \in 1..Len(xs) |->
                LET y == SampleY(ys, i)
                IN  Unproject(t[1].s * (t[1].cos * xs[i] - t[1].sin * y) + t[1].tx,
                              t[1].s * (t[1].sin * xs[i] + t[1].cos * y) + t[1].ty)]
        ELSE IF geo # None /\ Len(xs) > 0
        THEN LET lons == [k \in 1..Len(geo[1]) |-> geo[1][k][1]]
                 lats == [k \in 1..Len(geo[1]) |-> geo[1][k][2]]
             IN  [i \in 1..Len(xs) |->
                    <<MapAxis(SampleY(ys, i), MinOf(ys), MaxOf(ys), MinOf(lats), MaxOf(lats)),
                      MapAxis(xs[i], MinOf(xs), MaxOf(xs), MinOf(lons), MaxOf(lons))>>]
        ELSE <<>>

-----------------------------------------------------------------------------
(* scripts/compute_transform.js: the similarity solver *)

\* Mutant: the zero-variance branch is missing.
DegenerateNever(denom) == FALSE

\* if (denom === 0)
Degenerate(denom) == denom[1] = 0

\* solveSimilarity(src, dst).  `angle` is kept as the direction
\* <<cos, sin>> it stands for; the early returns have no `angle`.
solveSimilarity(src, dst) ==
    LET n == Min2(Len(src), Len(dst))
        one == Root(FALSE, <<1, 1>>)
        zero == Root(FALSE, <<0, 1>>)
    IN  IF n = 0
        THEN [s |-> one, cos |-> one, sin |-> zero, tx |-> <<0, 1>>, ty |-> <<0, 1>>]
        ELSE
        LET mx  == QDiv(QSum([i \in 1..n |-> src[i].x]), QInt(n))
            my  == QDiv(QSum([i \in 1..n |-> src[i].y]), QInt(n))
            mdx == QDiv(QSum([i \in 1..n |-> dst[i].x]), QInt(n))
            mdy == QDiv(QSum([i \in 1..n |-> dst[i].y]), QInt(n))
            xr(i) == QSub(src[i].x, mx)
            xi(i) == QSub(src[i].y, my)
            yr(i) == QSub(dst[i].x, mdx)
            yi(i) == QSub(dst[i].y, mdy)
            cReal == QSum([i \in 1..n |-> QAdd(QMul(yr(i), xr(i)), QMul(yi(i), xi(i)))])
            cImag == QSum([i \in 1..n |-> QSub(QMul(yi(i), xr(i)), QMul(yr(i), xi(i)))])
            denom == QSum([i \in 1..n |-> QAdd(QMul(xr(i), xr(i)), QMul(xi(i), xi(i)))])
        IN  IF Degenerate(denom)
            THEN [s |-> one, cos |-> one, sin |-> zero,
                  tx |-> QSub(mdx, mx), ty |-> QSub(mdy, my)]
            ELSE
            LET mag == Hypot(cReal, cImag)
                s   == Root(FALSE, QDiv(mag.sq, QMul(denom, denom)))
                cos == CosAtan2(cImag, cReal)
                sin == SinAtan2(cImag, cReal)
                sc  == RootTimes(s, cos)
                ss  == RootTimes(s, sin)
            IN  [s |-> s, cos |-> cos, sin |-> sin,
                 tx |-> QSub(mdx, QSub(QMul(sc, mx), QMul(ss, my))),
                 ty |-> QSub(mdy, QAdd(QMul(ss, mx), QMul(sc, my))),
                 angle |-> <<cos, sin>>]

-----------------------------------------------------------------------------
(* scripts/compute_transform.js: the registration run *)

NaN == <<0, 0>>
Infinity == <<1, 0>>

\* Mutant: the projection parameter is not clamped.
ClampUnitNot(t) == t

\* Math.max(0, Math.min(1, t))
ClampUnit(t) == QMax(<<0, 1>>, QMin(<<1, 1>>, t))

RECURSIVE NearestFrom(_, _, _, _)
\* The loop of nearestPointOnPolylineMeters from segment i on.
NearestFrom(pt, poly, i, best) ==
    IF i > Len(poly) - 1 THEN best
    ELSE LET a == poly[i]
             b == poly[i + 1]
             vx == QSub(b.x, a.x)
             vy == QSub(b.y, a.y)
             wx == QSub(pt.x, a.x)
             wy == QSub(pt.y, a.y)
             vLen2 == QAdd(QMul(vx, vx), QMul(vy, vy))
             t0 == IF vLen2[1] = 0 THEN <<0, 1>>
                   ELSE QDiv(QAdd(QMul(vx, wx), QMul(vy, wy)), vLen2)
             t == ClampUnit(t0)
             projX == QAdd(a.x, QMul(t, vx))
             projY == QAdd(a.y, QMul(t, vy))
             dx == QSub(projX, pt.x)
             dy == QSub(projY, pt.y)
             d2 == QAdd(QMul(dx, dx), QMul(dy, dy))
         IN  NearestFrom(pt, poly, i + 1,
                 IF best = None \/ QLess(d2, best[1].dist2)
                 THEN Some([x |-> projX, y |-> projY, dist2 |-> d2])
                 ELSE best)

\* nearestPointOnPolylineMeters(pt, poly): None stands for null.
nearestPointOnPolylineMeters(pt, poly) == NearestFrom(pt, poly, 1, None)

RECURSIVE QMinOf(_)
QMinOf(qs) == IF Len(qs) = 1 THEN qs[1] ELSE QMin(qs[1], QMinOf(Tail(qs)))
RECURSIVE QMaxOf(_)
QMaxOf(qs) == IF Len(qs) = 1 THEN qs[1] ELSE QMax(qs[1], QMaxOf(Tail(qs)))

\* x || 1
OrOne(q) == IF q[1] = 0 THEN <<1, 1>> ELSE q

\* seedS of the bounding-box seed (lines 88-98).  With no reference point
\* Math.min() is Infinity and the divisor -Infinity, so seedS is -0 (NaN
\* when there is no coordinate either); with reference points but no
\* coordinate it is -Infinity.
SeedS(corners, geo) ==
    IF Len(corners) = 0 THEN (IF Len(geo) = 0 THEN NaN ELSE <<0, 1>>)
    ELSE IF Len(geo) = 0 THEN QNeg(Infinity)
    ELSE LET px == [i \in 1..Len(geo) |-> geo[i].x]
             py == [i \in 1..Len(geo) |-> geo[i].y]
             xs == [i \in 1..Len(corners) |-> corners[i].x]
             ys == [i \in 1..Len(corners) |-> corners[i].y]
             seedSx == QDiv(QSub(QMaxOf(px), QMinOf(px)),
                            OrOne(QSub(QMaxOf(xs), QMinOf(xs))))
             seedSy == QDiv(QSub(QMaxOf(py), QMinOf(py)),
                            OrOne(QSub(QMaxOf(ys), QMinOf(ys))))
         IN  QDiv(QAdd(seedSx, seedSy), <<2, 1>>)

\* The seed transform (line 99); its translation is NaN or infinite when
\* an input is empty, and is replaced by the first solve before any use.
SeedTransform(corners, geo) ==
    LET seedS == SeedS(corners, geo)
        finite == Len(corners) > 0 /\ Len(geo) > 0
    IN  [s   |-> IF finite THEN RootOfQ(OrOne(seedS)) ELSE Root(FALSE, <<1, 1>>),
         cos |-> Root(FALSE, <<1, 1>>),
         sin |-> Root(FALSE, <<0, 1>>),
         tx  |-> IF finite
                 THEN QSub(QMinOf([i \in 1..Len(geo) |-> geo[i].x]),
                           QMul(seedS, QMinOf([i \in 1..Len(corners) |-> corners[i].x])))
                 ELSE NaN,
         ty  |-> IF finite
                 THEN QSub(QMinOf([i \in 1..Len(geo) |-> geo[i].y]),
                           QMul(seedS, QMinOf([i \in 1..Len(corners) |-> corners[i].y])))
                 ELSE NaN]

\* One pass of the loop body (lines 103-120): map, match, mean error,
\* solve.  `thrown` stands for the TypeError of nearest.x when the
\* polyline has no segment and nearest is null.
Iteration(corners, geo, transform) ==
    LET sc == RootTimes(transform.s, transform.cos)
        ss == RootTimes(transform.s, transform.sin)
        mappedNow == [i \in 1..Len(corners) |->
            [x |-> QAdd(QSub(QMul(sc, corners[i].x), QMul(ss, corners[i].y)), transform.tx),
             y |-> QAdd(QAdd(QMul(ss, corners[i].x), QMul(sc, corners[i].y)), transform.ty)]]
    IN  IF Len(corners) > 0 /\ Len(geo) < 2
        THEN [thrown |-> TRUE]
        ELSE LET nearest == [i \in 1..Len(corners) |->
                                nearestPointOnPolylineMeters(mappedNow[i], geo)[1]]
                 totalDist2 == QSum([i \in 1..Len(corners) |-> nearest[i].dist2])
             IN  [thrown |-> FALSE,
                  meanError |-> QDiv(totalDist2, QInt(Len(corners))),
                  sol |-> solveSimilarity(
                              [i \in 1..Len(corners) |-> [x |-> corners[i].x, y |-> corners[i].y]],
                              [i \in 1..Len(corners) |-> [x |-> nearest[i].x, y |-> nearest[i].y]])]

\* Mutant: the loop never exits early.
ConvergedNever(prevError, meanError) == FALSE

\* Math.abs(prevError - meanError) < 1e-6 (false for Infinity and NaN)
Converged(prevError, meanError) ==
    /\ QFinite(prevError)
    /\ QFinite(meanError)
    /\ QLess(QAbs(QSub(prevError, meanError)), <<1, 1000000>>)

\* Mutant: the run always exits with status 0.
ExitCodeAlwaysZero(failed) == 0

\* process.exit(1) in the catch of the top-level try (lines 138-143);
\* a run that returns from compute() exits with status 0.
ExitCode(failed) == IF failed THEN 1 ELSE 0

CornersPath == "src/corners.json"
GeoPath == "src/data/ca-1978.json"

\* Mutant: the record is written without seedS.
OutRecordNoSeed(transform, count, seedS) ==
    [created_at |-> "toISOString", transform |-> transform,
     corners_count |-> count, notes |-> "notes"]

\* The record handed to writeFileSync (lines 125-131).
OutRecord(transform, count, seedS) ==
    [created_at |-> "toISOString", transform |-> transform,
     corners_count |-> count, seedS |-> seedS, notes |-> "notes"]

\* A run of the script ended by an exception: the catch prints it and
\* exits; nothing is written.
Abort(r, message, path) ==
    [r EXCEPT !.pc = "exited", !.exit = Some(ExitCode(TRUE)),
              !.err = Some([message |-> message, path |-> path])]

\* Lines 75-99: the two existence checks, the parse and the seed.
RegStart ==
    /\ reg.pc = "start"
    /\ reg' = IF ~reg.cornersFile
                THEN Abort(reg, "corners.json not found: ", CornersPath)
              ELSE IF ~reg.geoFile
                THEN Abort(reg, "geojson not found: ", GeoPath)
              ELSE [reg EXCEPT !.pc = "loop",
                               !.seedS = SeedS(reg.corners, reg.geo),
                               !.transform = SeedTransform(reg.corners, reg.geo),
                               !.prevError = Infinity,
                               !.iter = 0]
    /\ UNCHANGED <<now, selectedDriverCode, appModule, tmModule, loads, selGen,
                   currentIndex, playing, speed, playStartWall, playStartTel,
                   marker, raf, arrived, tStep, gAnchor, playFrom, prePause,
                   seeked, fn, cornerTransform, frames, mounted>>

\* Lines 102-123: one iteration of the loop; `errs` records the mean error
\* of every iteration run.
RegIterate ==
    /\ reg.pc = "loop"
    /\ reg.iter < MaxIter
    /\ \E it \in {Iteration(reg.corners, reg.geo, reg.transform)} :
           reg' = IF it.thrown
                    THEN Abort(reg, "TypeError", "")
                  ELSE IF Converged(reg.prevError, it.meanError)
                    THEN [reg EXCEPT !.pc = "persist",
                                     !.transform = it.sol,
                                     !.errs = Append(@, it.meanError)]
                  ELSE [reg EXCEPT !.pc = IF reg.iter + 1 < MaxIter
                                          THEN "loop" ELSE "persist",
                                   !.transform = it.sol,
                                   !.errs = Append(@, it.meanError),
                                   !.prevError = it.meanError,
                                   !.iter = @ + 1]
    /\ UNCHANGED <<now, selectedDriverCode, appModule, tmModule, loads, selGen,
                   currentIndex, playing, speed, playStartWall, playStartTel,
                   marker, raf, arrived, tStep, gAnchor, playFrom, prePause,
                   seeked, fn, cornerTransform, frames, mounted>>

\* Lines 125-135: the record is written and compute() returns.
RegPersist ==
    /\ reg.pc = "persist"
    /\ reg' = [reg EXCEPT !.pc = "exited",
                          !.exit = Some(ExitCode(FALSE)),
                          !.out = Some(OutRecord(reg.transform, Len(reg.corners),
                                                 reg.seedS))]
    /\ UNCHANGED <<now, selectedDriverCode, appModule, tmModule, loads, selGen,
                   currentIndex, playing, speed, playStartWall, playStartTel,
                   marker, raf, arrived, tStep, gAnchor, playFrom, prePause,
                   seeked, fn, cornerTransform, frames, mounted>>

\* Point sequences of the given lengths over the grid 0..g.
PointSeqs(lens, g) ==
    UNION {[1..n -> {Pt(x, y) : x \in 0..g, y \in 0..g}] : n \in lens}

\* Similarity transforms with rational scale, rotation and translation:
\* scales 1, 2, 1/2; the quarter turns and the 3-4-5 rotation.
Similarities ==
    {[s |-> sc, cos |-> r[1], sin |-> r[2], tx |-> QInt(t[1]), ty |-> QInt(t[2])] :
        sc \in {<<1, 1>>, <<2, 1>>, <<1, 2>>},
        r \in {<<<<1, 1>>, <<0, 1>>>>, <<<<0, 1>>, <<1, 1>>>>,
               <<<<0 - 1, 1>>, <<0, 1>>>>, <<<<0, 1>>, <<0 - 1, 1>>>>,
               <<<<3, 5>>, <<4, 5>>>>},
        t \in {<<0, 0>>, <<1, 0 - 2>>, <<0 - 2, 1>>}}

\* The image of a point under the similarity T.
Apply(T, p) ==
    [x |-> QAdd(QMul(T.s, QSub(QMul(T.cos, p.x), QMul(T.sin, p.y))), T.tx),
     y |-> QAdd(QMul(T.s, QAdd(QMul(T.sin, p.x), QMul(T.cos, p.y))), T.ty)]

\* Correspondences given to the solver: a point set and its image under
\* a known similarity, or two free point sequences.
SolveInit ==
    fn \in {[src |-> src, dst |-> [i \in 1..Len(src) |-> Apply(T, src[i])],
             tf |-> Some(T), sol |-> None] :
               src \in PointSeqs(1..MaxPts, MaxCoord), T \in Similarities}
           \cup
           {[src |-> src, dst |-> dst, tf |-> None, sol |-> None] :
               src \in PointSeqs(0..MaxPts, MaxCoord), dst \in PointSeqs(0..2, 1)}

\* solveSimilarity(src, dst) is called.
Solve ==
    /\ fn.sol = None
    /\ fn' = [fn EXCEPT !.sol = Some(solveSimilarity(fn.src, fn.dst))]
    /\ UNCHANGED appVars

InitSolve == AppInit /\ SolveInit /\ reg = RegIdle

NextSolve == Solve

SpecSolve == InitSolve /\ [][NextSolve]_vars

\* A run: which of the two files exist, the reference points X, Y of
\* corners.json (none, one or two) and the projected coordinates of the
\* first feature of the geojson.  The projection of lon/lat to metres is
\* taken as done: the inputs are the projected points, on the unit grid.
RegRuns ==
    {[pc |-> "start", cornersFile |-> cf, geoFile |-> gf,
      corners |-> IF cf /\ gf THEN c ELSE <<>>,
      geo |-> IF cf /\ gf THEN g ELSE <<>>,
      seedS |-> NaN, transform |-> Null, prevError |-> Infinity, iter |-> 0,
      errs |-> <<>>, exit |-> None, err |-> None, out |-> None] :
        cf \in BOOLEAN, gf \in BOOLEAN,
        c \in PointSeqs(0..2, MaxCoord), g \in PointSeqs(0..3, 1)}

\* Query points with coordinates in halves over 0..g.
HalfPoints(g) ==
    {[x |-> Rat(i, 2), y |-> Rat(j, 2)] : i \in 0..(2 * g), j \in 0..(2 * g)}

\* A call of nearestPointOnPolylineMeters: a polyline of two or three
\* points and a query point on it, beside it or beyond its ends.
NearInit ==
    fn \in {[pt |-> q, poly |-> poly, res |-> None] :
               q \in HalfPoints(MaxCoord + 1), poly \in PointSeqs(2..3, MaxCoord)}

\* nearestPointOnPolylineMeters(pt, poly) is called.
Near ==
    /\ fn.res = None
    /\ fn' = [fn EXCEPT !.res = nearestPointOnPolylineMeters(fn.pt, fn.poly)]
    /\ UNCHANGED appVars

InitNear == AppInit /\ NearInit /\ reg = RegIdle

NextNear == Near

SpecNear == InitNear /\ [][NextNear]_vars

\* Configurations of the mapper: corner_transform.json with or without a
\* transform, the reference polyline with or without a feature.
MapConfigs == {[created_at |-> "toISOString"],
               [created_at |-> "toISOString", transform |-> CornerTransform],
               [created_at |-> "toISOString",
                transform |-> [s |-> 1, cos |-> 1, sin |-> 0, tx |-> 0, ty |-> 0]]}
MapGeos == {None, Some(<<<<0, 0>>, <<4, 2>>, <<2, 6>>>>)}

\* Traces with parallel x and y arrays of the given lengths over 0..g.
Traces(lens, g) ==
    UNION {[1..n -> (0..g) \X (0..g)] : n \in lens}

\* The mapper is run on a trace and on a second trace that differs from
\* it in at most the sample j.
MapInit ==
    fn \in {[xs |-> [i \in 1..Len(tr) |-> tr[i][1]],
             ys |-> [i \in 1..Len(tr) |-> tr[i][2]],
             xs2 |-> [i \in 1..Len(tr) |-> IF i = j THEN v[1] ELSE tr[i][1]],
             ys2 |-> [i \in 1..Len(tr) |-> IF i = j THEN v[2] ELSE tr[i][2]],
             cfg |-> cfg, geo |-> geo, out |-> None, out2 |-> None] :
               tr \in Traces(0..MaxPts, MaxCoord), j \in 1..MaxPts,
               v \in (0..MaxCoord) \X (0..MaxCoord),
               cfg \in MapConfigs, geo \in MapGeos}

\* The memo is computed for both traces.
Map ==
    /\ fn.out = None
    /\ fn' = [fn EXCEPT !.out = Some(telemetryLatLngs(fn.xs, fn.ys, fn.cfg, fn.geo)),
                        !.out2 = Some(telemetryLatLngs(fn.xs2, fn.ys2, fn.cfg, fn.geo))]
    /\ UNCHANGED appVars

InitMap == AppInit /\ MapInit /\ reg = RegIdle

NextMap == Map

SpecMap == InitMap /\ [][NextMap]_vars

-----------------------------------------------------------------------------
(* BrakeAnalysis.tsx: the coloured segments of the brake map *)

Red == "#ff3b30"
Green == "#2ecc71"

\* Number(brake[i]) > 0 ? red : green; an absent entry is NaN, not braking.
BrakeColor(brake, i) ==
    IF InRange(brake, i) /\ At(brake, i) > 0 THEN Red ELSE Green

RECURSIVE SegmentsFrom(_, _, _, _, _, _)
\* The for loop of the segments memo from index i on, and the push after it.
SegmentsFrom(positions, brake, i, segs, currentColor, currentPoints) ==
    IF i >= Len(positions) - 1
    THEN IF Len(currentPoints) >= 2
         THEN Append(segs, [points |-> currentPoints, color |-> currentColor])
         ELSE segs
    ELSE LET next == At(positions, i + 1)
             colorForThis == BrakeColor(brake, i)
         IN  IF colorForThis = currentColor
             THEN SegmentsFrom(positions, brake, i + 1, segs, currentColor,
                               Append(currentPoints, next))
             ELSE SegmentsFrom(positions, brake, i + 1,
                               Append(segs, [points |-> Append(currentPoints, next),
                                             color |-> currentColor]),
                               colorForThis, <<next>>)

\* The segments memo of BrakeAnalysis.
segments(positions, brake) ==
    IF Len(positions) < 2 THEN <<>>
    ELSE IF Len(brake) < 2 THEN <<[points |-> positions, color |-> Green]>>
    ELSE SegmentsFrom(positions, brake, 0, <<>>, BrakeColor(brake, 0),
                      <<At(positions, 0)>>)

\* A render of BrakeAnalysis: positions are told apart by their index in
\* the trace, brake is an array of pedal values of any length.
BrakeInit ==
    fn \in {[positions |-> [i \in 1..n |-> i], brake |-> b, segs |-> None] :
               n \in 0..MaxLen, b \in UNION {[1..m -> 0..MaxVal] : m \in 0..MaxLen}}

\* The memo is computed.
Brake ==
    /\ fn.segs = None
    /\ fn' = [fn EXCEPT !.segs = Some(segments(fn.positions, fn.brake))]
    /\ UNCHANGED appVars

InitBrake == AppInit /\ BrakeInit /\ reg = RegIdle

NextBrake == Brake

SpecBrake == InitBrake /\ [][NextBrake]_vars

InitReg == AppInit /\ fn = FnIdle /\ reg \in RegRuns

NextReg == RegStart \/ RegIterate \/ RegPersist

SpecReg == InitReg /\ [][NextReg]_vars

-----------------------------------------------------------------------------
(* Claims *)

\* C1. Segment lookup: for a non-decreasing time array of length n >= 2
\* and any target time t, findSegmentIndex returns i with 0 <= i <= n-2;
\* when time[0] <= t <= time[n-1], time[i] <= t <= time[i+1]; below
\* time[0] it returns 0 and above time[n-1] it returns n-2.
C1_SegmentLookup ==
    (fn.seg # None /\ Len(fn.arr) >= 2) =>
        LET i == fn.seg[1]
            n == Len(fn.arr)
            t == fn.t
        IN  /\ 0 <= i /\ i <= n - 2
            /\ (At(fn.arr, 0) <= t /\ t <= At(fn.arr, n - 1)) =>
                   (At(fn.arr, i) <= t /\ t <= At(fn.arr, i + 1))
            /\ t < At(fn.arr, 0) => i = 0
            /\ t > At(fn.arr, n - 1) => i = n - 2

\* C1 witness: [0,1,2,3] looked up above the range gives n-2 = 2, and a
\* lookup inside gives the segment that holds it.
C1_Witness ==
    /\ fn.arr = <<0, 1, 2, 3>>
    /\ fn.t = MaxVal + 1
    /\ fn.seg = Some(2)

\* A move of the time slider.
IsSeek == \E idx \in SliderValues : Seek(idx)

\* The trace displayed changes (telemetry or its positions).
TraceChange ==
    \/ Telemetry(appModule', tmModule') # Telemetry(appModule, tmModule)
    \/ appModule' # appModule

\* lastTime of a time array
LastTime(times) == At(times, Len(times) - 1)

\* C2. Frame-rate independence: the play-head time a step computes at
\* wall-clock time W is clamp(anchorTel + (W - anchorWall) * m) for the
\* anchor taken when the refs were set and the speed m in force, however
\* many steps ran, and whenever they ran, since the anchor was set.
C2_FrameRateIndependence ==
    [][Step =>
         /\ gAnchor # None
         /\ tStep' = Some(ClampT(Times(raf[1].tel),
                                 gAnchor[1].tel
                                 + ((now - gAnchor[1].wall) * speed) \div MsPerSec))]_vars

\* C2 witness: one second after the anchor, at 2x, a step has put the
\* play-head two telemetry seconds after the anchor time.
C2_Witness ==
    /\ playing
    /\ gAnchor # None
    /\ speed = 2 * SpeedDen
    /\ now = gAnchor[1].wall + MsPerSec
    /\ tStep = Some(gAnchor[1].tel + 2 * SpeedDen)

\* C3. Pause holds the play-head: with the marker shown, a play() that
\* follows a pause continues from exactly the time computed by the last
\* step before the pause, i.e. the telemetry anchor taken at the resume
\* is that time.
C3_ResumeFromLastTime ==
    [][(TogglePlay /\ ~playing /\ marker # None /\ tStep # None
        /\ playStartTel' # None) =>
         playStartTel' = tStep]_vars

\* C4. Resume always rebases: whenever a step is scheduled, the wall-clock
\* anchor it will measure from was not set before the preceding pause.
C4_ResumeRebases == raf # None => ~prePause

\* C5 (as stated). A seek keeps `playing` at the value it had before.
C5_SeekKeepsPlaying == [][IsSeek => playing' = playing]_vars

\* C5 (as the code has it). A seek sets the play-head to the chosen sample
\* and stops playback: after it currentIndex is the slider value and
\* playing is false.
C5_SeekPauses ==
    [][\A idx \in SliderValues : Seek(idx) => (currentIndex' = idx /\ ~playing')]_vars

\* C5 witness: the slider was moved while playing, and playback is stopped.
C5_Witness == seeked = Some(TRUE) /\ ~playing

\* C6. Seek-then-play: after a seek to the sample of time T followed by
\* play(), a step taken D seconds of wall-clock later at speed m puts the
\* play-head at min(lastTime, T + m * D).
C6_SeekThenPlay ==
    [][(Step /\ playFrom # None) =>
         tStep' = Some(Min2(LastTime(Times(Telemetry(appModule, tmModule))),
                            playFrom[1].t
                            + ((now - playFrom[1].wall) * speed) \div MsPerSec))]_vars

\* C6 witness: seek to the sample at 1 s, play, one second at 1x: the
\* play-head is at 2 s.
C6_Witness ==
    /\ playFrom # None
    /\ playFrom[1].t = SpeedDen
    /\ speed = SpeedDen
    /\ now = playFrom[1].wall + MsPerSec
    /\ tStep = Some(2 * SpeedDen)

\* C7. No advancement while paused: from a state with playing = false,
\* currentIndex and the marker position change only through a seek, a
\* play() or a trace change, never through a step.
C7_NoAdvanceWhilePaused ==
    [][(~playing /\ (currentIndex' # currentIndex \/ marker' # marker)) =>
         (~Step /\ (IsSeek \/ TogglePlay \/ TraceChange))]_vars

\* C7 witness: playback was stopped between two samples and wall-clock
\* time has passed; the marker is still between the samples.
C7_Witness ==
    /\ ~playing
    /\ raf = None
    /\ tStep = Some(1)
    /\ currentIndex = 0
    /\ marker # None
    /\ marker[1] # OnSample(At(TelemetryLatLngs(appModule), 0))
    /\ now = MaxWall * MsPerSec

\* C8. No looping: once a step has put the play-head on the last sample
\* (the target time passed it), every later step leaves it there.
C8_StaysAtEnd ==
    [][(Step /\ tStep # None /\ tStep[1] = LastTime(Times(raf[1].tel))) =>
         tStep' = tStep]_vars

\* C9. Last-request-wins: the result of an import started for an earlier
\* selection that settles after a newer selection was made is never
\* committed to the telemetry state.
C9_LastRequestWins == arrived # None => ~arrived[1].committed

\* C9 witness: such an import has settled and was discarded.
C9_Witness == arrived = Some([committed |-> FALSE])

\* The segment and fraction of a play-head time t on a time array.
SegmentOf(times, t) ==
    LET i == findSegmentIndex(times, t)
        t0 == At(times, i)
        t1 == IF InRange(times, i + 1) THEN At(times, i + 1) ELSE t0
    IN  [i |-> i, alpha |-> Alpha(t, t0, t1)]

AppLoadFails ==
    \E l \in loads :
        l.owner = "app" /\ ~l.stale /\ ~l.cancelled /\ LoadDone(l, FALSE)

\* A driver without importer is selected.
SelectNoImporter == \E code \in Codes \ Importers : Select(code)

\* C12. Failed load degrades to no telemetry: when the load for the
\* selected driver fails (rejected import or no importer for the code),
\* the telemetry used by the analyses (App) and by the map view (TrackMap)
\* is null afterwards.
C12_FailedLoadNoTelemetry ==
    [][(AppLoadFails \/ SelectNoImporter) =>
         (appModule' = Null /\ Telemetry(appModule', tmModule') = Null)]_vars

\* The trace displayed has no `time` array.
NoTimeTrace ==
    LET tel == Telemetry(appModule, tmModule)
    IN  tel # Null /\ ~HasTime(tel)

\* C13. A trace without a `time` array disables playback: on such a
\* trace no play, pause or speed operation and no passing of time
\* schedules a step or moves currentIndex or the marker, and no step
\* runs (so none can raise).
C13_NoTimeNoPlayback ==
    [][(NoTimeTrace /\ (TogglePlay \/ (\E s \in Speeds : SetSpeed(s)) \/ Tick \/ Step)) =>
         (~Step /\ raf' = None /\ currentIndex' = currentIndex /\ marker' = marker)]_vars

\* C13 witness: on the trace without `time`, play was pressed, the speed
\* changed and a second has passed; nothing is scheduled and the marker
\* is on sample 0.
C13_Witness ==
    /\ NoTimeTrace
    /\ appModule # Null
    /\ playing
    /\ speed = 2 * SpeedDen
    /\ now > 0
    /\ raf = None
    /\ currentIndex = 0
    /\ marker = Some(OnSample(At(TelemetryLatLngs(appModule), 0)))

\* C14. Controls disabled without telemetry: while no telemetry is
\* loaded, operating the play control does not put the playback state
\* into playing = true.
C14_NoPlayWithoutTelemetry ==
    [][(Telemetry(appModule, tmModule) = Null /\ TogglePlay) => ~playing']_vars

\* The solver returned the scale, rotation and translation of T.
Recovered(sol, T) ==
    /\ sol.s = RootOfQ(T.s)
    /\ sol.cos = RootOfQ(T.cos)
    /\ sol.sin = RootOfQ(T.sin)
    /\ sol.tx = T.tx
    /\ sol.ty = T.ty

\* The first n points of src are one and the same point.
Coincide(src, n) == \A i \in 1..n : src[i] = src[1]

\* C19 (as stated). Solver recovery: for every source point set of size
\* >= 1 and every similarity T, solveSimilarity(source, T(source)) returns
\* the scale, rotation and translation of T.
C19_RecoversAnySet ==
    (fn.sol # None /\ fn.tf # None /\ Len(fn.src) >= 1) =>
        Recovered(fn.sol[1], fn.tf[1])

\* C19 (as the code has it). Solver recovery holds for every source point
\* set with at least two distinct points and every similarity T.
C19_RecoversDistinctSet ==
    (fn.sol # None /\ fn.tf # None /\ ~Coincide(fn.src, Len(fn.src))) =>
        Recovered(fn.sol[1], fn.tf[1])

\* C19 witness: two distinct points under scale 2, a quarter turn back and
\* a translation; the solver has returned that transform.
C19_Witness ==
    /\ fn.sol # None
    /\ fn.tf = Some([s |-> <<2, 1>>, cos |-> <<0, 1>>, sin |-> <<0 - 1, 1>>,
                     tx |-> <<1, 1>>, ty |-> <<0 - 2, 1>>])
    /\ fn.src = <<Pt(0, 0), Pt(1, 0)>>
    /\ fn.sol[1].s = RootOfQ(<<2, 1>>)
    /\ fn.sol[1].sin = RootOfQ(<<0 - 1, 1>>)

\* C20. Solver degenerate cases: with 0 pairs the result is exactly
\* {s:1, cos:1, sin:0, tx:0, ty:0}; when all source points coincide it is
\* s=1, cos=1, sin=0 with translation = destination centroid - source
\* centroid; and every number returned is finite.
C20_DegenerateCases ==
    fn.sol # None =>
        LET sol == fn.sol[1]
            n == Min2(Len(fn.src), Len(fn.dst))
            unit == /\ sol.s = RootOfQ(<<1, 1>>)
                    /\ sol.cos = RootOfQ(<<1, 1>>)
                    /\ sol.sin = RootOfQ(<<0, 1>>)
        IN  /\ n = 0 =>
                 (unit /\ sol.tx = <<0, 1>> /\ sol.ty = <<0, 1>>
                  /\ DOMAIN sol = {"s", "cos", "sin", "tx", "ty"})
            /\ (n > 0 /\ Coincide(fn.src, n)) =>
                 /\ unit
                 /\ QMul(QInt(n), QAdd(sol.tx, fn.src[1].x))
                      = QSum([i \in 1..n |-> fn.dst[i].x])
                 /\ QMul(QInt(n), QAdd(sol.ty, fn.src[1].y))
                      = QSum([i \in 1..n |-> fn.dst[i].y])
            /\ QFinite(sol.s.sq) /\ QFinite(sol.cos.sq) /\ QFinite(sol.sin.sq)
            /\ QFinite(sol.tx) /\ QFinite(sol.ty)

\* C20 witness: two coincident source points sent to (0,0) and (1,1): the
\* result is the translation by (1/2, 1/2) - (1, 0).
C20_Witness ==
    /\ fn.src = <<Pt(1, 0), Pt(1, 0)>>
    /\ fn.dst = <<Pt(0, 0), Pt(1, 1)>>
    /\ fn.sol # None
    /\ fn.sol[1].tx = <<0 - 1, 2>>
    /\ fn.sol[1].ty = <<1, 2>>

\* C10. Interpolation: for the segment i found for the clamped time t,
\* fraction = (t - time[i]) / (time[i+1] - time[i]), 0 when the interval
\* is empty or sample i+1 does not exist; 0 <= fraction <= 1; and the
\* position is p[i] + fraction * (p[i+1] - p[i]).
C10_Interpolation ==
    fn.calc # None =>
        LET c  == fn.calc[1]
            i  == c.i
            a  == c.alpha
            lls == AsLatLngs(fn.pos)
            more == InRange(fn.arr, i + 1)
            t0 == At(fn.arr, i)
            t1 == IF more THEN At(fn.arr, i + 1) ELSE t0
            p0 == At(lls, i)
            p1 == IF more THEN At(lls, i + 1) ELSE p0
            lat == c.pos[1][1]
            lon == c.pos[1][2]
        IN  /\ ~c.thrown
            /\ a[2] > 0
            /\ IF ~more \/ t1 = t0
               THEN a[1] = 0
               ELSE a[1] * (t1 - t0) = (c.t - t0) * a[2]
            /\ 0 <= a[1] /\ a[1] <= a[2]
            /\ lat[2] > 0 /\ lon[2] > 0
            /\ lat[1] * a[2] = (p0[1] * a[2] + a[1] * (p1[1] - p0[1])) * lat[2]
            /\ lon[1] * a[2] = (p0[2] * a[2] + a[1] * (p1[2] - p0[2])) * lon[2]

\* C10 witness: time = [0,2], positions [0,2], t = 1 gives the midpoint 1
\* (the scaled form of time = [0,10], x = [0,100], t = 5 -> 50).
C10_Witness ==
    /\ fn.arr = <<0, 2>>
    /\ fn.pos = <<0, 2>>
    /\ fn.t = 1
    /\ fn.calc # None
    /\ fn.calc[1].alpha = <<1, 2>>
    /\ fn.calc[1].pos[1][1] = <<1, 1>>

\* Two successive mean errors, both numbers, less than 1e-6 apart.
SmallChange(e1, e2) ==
    /\ e1[2] # 0
    /\ e2[2] # 0
    /\ 1000000 * Abs(e1[1] * e2[2] - e2[1] * e1[2]) < e1[2] * e2[2]

\* The mean errors of the iterations that were followed by another one:
\* none of them met the stop condition.
NoEarlierStop(errs) ==
    \A k \in 1..(Len(errs) - 1) :
        ~SmallChange(IF k = 1 THEN Infinity ELSE errs[k - 1], errs[k])

\* The last iteration run met the stop condition.
LastStops(errs) ==
    /\ Len(errs) >= 2
    /\ SmallChange(errs[Len(errs) - 1], errs[Len(errs)])

\* C15: the alternating loop runs at most 20 iterations, and it stops after
\* the first iteration whose mean squared error differs from the previous
\* iteration's by less than 1e-6: no iteration follows one that met the
\* condition, and a loop that ended before the cap ended on the condition.
C15_LoopBound ==
    reg.pc # "idle" =>
        /\ Len(reg.errs) <= MaxIter
        /\ NoEarlierStop(reg.errs)
        /\ reg.pc = "loop" =>
              /\ Len(reg.errs) < MaxIter
              /\ ~LastStops(reg.errs)
        /\ reg.out # None => Len(reg.errs) = MaxIter \/ LastStops(reg.errs)

\* A run that stopped on the condition before the cap, and was written.
C15_Witness ==
    /\ reg.out # None
    /\ Len(reg.errs) \in 2..(MaxIter - 1)
    /\ LastStops(reg.errs)

\* C16: if the reference-point file or the reference-geography file is
\* absent, the run ends with a non-zero exit code and an error message that
\* names the missing file; nothing is written.
C16_MissingFileFatal ==
    (reg.pc = "exited" /\ (~reg.cornersFile \/ ~reg.geoFile)) =>
        /\ reg.exit # None
        /\ reg.exit[1] # 0
        /\ reg.out = None
        /\ reg.err # None
        /\ reg.err[1].path = (IF ~reg.cornersFile THEN CornersPath ELSE GeoPath)
        /\ reg.err[1].message = (IF ~reg.cornersFile THEN "corners.json not found: "
                                 ELSE "geojson not found: ")

\* A run that ended on the missing reference-geography file.
C16_Witness ==
    /\ reg.pc = "exited"
    /\ reg.cornersFile
    /\ ~reg.geoFile
    /\ reg.exit = Some(1)

\* C17 (as stated): if the reference-point set is empty or the polyline has
\* no coordinates, the run aborts with a non-zero exit instead of
\* persisting a transform.
C17_EmptyInputFatal ==
    (/\ reg.pc = "exited"
     /\ reg.cornersFile
     /\ reg.geoFile
     /\ (Len(reg.corners) = 0 \/ Len(reg.geo) = 0)) =>
        /\ reg.exit # None
        /\ reg.exit[1] # 0
        /\ reg.out = None

\* The fields of a transform without its angle.
FiveFields == {"s", "cos", "sin", "tx", "ty"}

\* C18 (as stated): every record written contains created_at,
\* corners_count, seedS, notes and a transform with all six fields s, cos,
\* sin, tx, ty and angle, the zero-pair and zero-variance branches of the
\* solver included.
C18_SixFieldsAlways ==
    reg.out # None =>
        /\ DOMAIN reg.out[1] = {"created_at", "transform", "corners_count", "seedS", "notes"}
        /\ DOMAIN reg.out[1].transform = FiveFields \cup {"angle"}

\* C18 (amended): every record written contains created_at, corners_count,
\* seedS, notes and a transform with s, cos, sin, tx and ty; the transform
\* has an angle exactly when the reference points are at least two and not
\* all the same point, and corners_count is the number of reference points.
C18_OutputShape ==
    reg.out # None =>
        /\ DOMAIN reg.out[1] = {"created_at", "transform", "corners_count", "seedS", "notes"}
        /\ FiveFields \subseteq DOMAIN reg.out[1].transform
        /\ DOMAIN reg.out[1].transform \subseteq FiveFields \cup {"angle"}
        /\ "angle" \in DOMAIN reg.out[1].transform
              <=> ~Coincide(reg.corners, Len(reg.corners))
        /\ reg.out[1].corners_count = Len(reg.corners)

\* A record written after the solver took its zero-variance branch.
C18_Witness ==
    /\ reg.out # None
    /\ Len(reg.corners) = 1
    /\ "angle" \notin DOMAIN reg.out[1].transform

\* |p - q|^2
Dist2(p, q) ==
    LET dx == QSub(p.x, q.x)
        dy == QSub(p.y, q.y)
    IN  QAdd(QMul(dx, dx), QMul(dy, dy))

\* (p - a) . (b - a)
DotFrom(a, b, p) ==
    QAdd(QMul(QSub(p.x, a.x), QSub(b.x, a.x)), QMul(QSub(p.y, a.y), QSub(b.y, a.y)))

\* The squared distance from p to the segment a-b, by Pythagoras: the
\* nearer endpoint when the foot of the perpendicular falls outside.
SegDist2(p, a, b) ==
    LET d == DotFrom(a, b, p)
        v2 == Dist2(a, b)
    IN  IF v2[1] = 0 \/ ~QLess(<<0, 1>>, d) THEN Dist2(p, a)
        ELSE IF ~QLess(d, v2) THEN Dist2(p, b)
        ELSE QSub(Dist2(p, a), QDiv(QMul(d, d), v2))

\* q lies on the segment a-b.
OnSegment(q, a, b) ==
    /\ a = b => q = a
    /\ QSub(QMul(QSub(q.x, a.x), QSub(b.y, a.y)),
            QMul(QSub(q.y, a.y), QSub(b.x, a.x)))[1] = 0
    /\ ~QLess(DotFrom(a, b, q), <<0, 1>>)
    /\ ~QLess(Dist2(a, b), DotFrom(a, b, q))

\* C21: for every query point and polyline of at least 2 points the result
\* is a point of some segment (projection parameter clamped to [0,1], a
\* zero-length segment giving its endpoint without a division by zero),
\* its dist2 is its squared distance to the query point and the minimum
\* over all segments; a query point lying on a segment is returned itself
\* with squared distance 0.
C21_NearestPoint ==
    (fn # FnIdle /\ "poly" \in DOMAIN fn /\ fn.res # None) =>
        LET r == fn.res[1]
            q == [x |-> r.x, y |-> r.y]
            segs == 1..(Len(fn.poly) - 1)
        IN  /\ QFinite(r.x) /\ QFinite(r.y) /\ QFinite(r.dist2)
            /\ r.dist2 = Dist2(fn.pt, q)
            /\ \E i \in segs :
                  /\ OnSegment(q, fn.poly[i], fn.poly[i + 1])
                  /\ r.dist2 = SegDist2(fn.pt, fn.poly[i], fn.poly[i + 1])
            /\ \A i \in segs :
                  ~QLess(SegDist2(fn.pt, fn.poly[i], fn.poly[i + 1]), r.dist2)
            /\ (\E i \in segs : OnSegment(fn.pt, fn.poly[i], fn.poly[i + 1]))
                  => r.dist2 = <<0, 1>> /\ q = fn.pt

\* A query point strictly inside the second segment of a polyline whose
\* first segment has zero length.
C21_Witness ==
    /\ fn # FnIdle
    /\ "poly" \in DOMAIN fn
    /\ fn.res # None
    /\ Len(fn.poly) = 3
    /\ fn.poly[1] = fn.poly[2]
    /\ fn.poly[2] # fn.poly[3]
    /\ OnSegment(fn.pt, fn.poly[2], fn.poly[3])
    /\ fn.pt \notin {fn.poly[2], fn.poly[3]}
    /\ fn.res[1].dist2 = <<0, 1>>

\* A mapper call has been made.
Mapped == fn # FnIdle /\ "cfg" \in DOMAIN fn /\ fn.out # None

\* The samples at which the two traces agree.
SameSamples == {k \in 1..Len(fn.xs) : fn.xs[k] = fn.xs2[k] /\ fn.ys[k] = fn.ys2[k]}

\* The two traces have the same bounding box.
SameBox ==
    Len(fn.xs) > 0 =>
        /\ MinOf(fn.xs) = MinOf(fn.xs2) /\ MaxOf(fn.xs) = MaxOf(fn.xs2)
        /\ MinOf(fn.ys) = MinOf(fn.ys2) /\ MaxOf(fn.ys) = MaxOf(fn.ys2)

\* C22 (as stated): the geographic sequence has the length of the x array
\* and element k is computed from sample k only, on both paths: two
\* traces that agree at sample k get the same element k.
C22_SampleOnly ==
    Mapped =>
        /\ "transform" \in DOMAIN fn.cfg \/ fn.geo # None
              => Len(fn.out[1]) = Len(fn.xs)
        /\ \A k \in SameSamples :
              k \in DOMAIN fn.out[1] => fn.out[1][k] = fn.out2[1][k]

\* C22 (amended): the geographic sequence has the length of the x array;
\* on the transform path element k is computed from sample k only, and on
\* the bounding-box path from sample k and the bounding box of the trace.
C22_SampleAndBox ==
    Mapped =>
        /\ "transform" \in DOMAIN fn.cfg \/ fn.geo # None
              => Len(fn.out[1]) = Len(fn.xs)
        /\ \A k \in SameSamples :
              (k \in DOMAIN fn.out[1] /\ ("transform" \in DOMAIN fn.cfg \/ SameBox))
                  => fn.out[1][k] = fn.out2[1][k]

\* Both paths were taken on traces of two samples or more that differ in
\* one sample: here the bounding-box path, with an element moved by a
\* change of another sample.
C22_Witness ==
    /\ Mapped
    /\ "transform" \notin DOMAIN fn.cfg
    /\ fn.geo # None
    /\ Len(fn.xs) >= 2
    /\ \E k \in SameSamples : fn.out[1][k] # fn.out2[1][k]

\* The similarity placement of one sample under the transform t.
Placed(t, x, y) ==
    <<t.s * (t.sin * x + t.cos * y) + t.ty, t.s * (t.cos * x - t.sin * y) + t.tx>>

\* v lies between lo and hi.
QBetween(v, lo, hi) == ~QLess(v, QInt(lo)) /\ ~QLess(QInt(hi), v)

\* Every element lies in the bounding box of the reference polyline, and
\* a trace that spans an interval on an axis reaches both of its sides.
InGeoBox(out, xs, ys, coords) ==
    LET lons == [k \in 1..Len(coords) |-> coords[k][1]]
        lats == [k \in 1..Len(coords) |-> coords[k][2]]
    IN  /\ \A k \in 1..Len(out) :
              /\ QBetween(out[k][1], MinOf(lats), MaxOf(lats))
              /\ QBetween(out[k][2], MinOf(lons), MaxOf(lons))
        /\ MinOf(xs) # MaxOf(xs) =>
              /\ \E k \in 1..Len(out) : out[k][2] = QInt(MinOf(lons))
              /\ \E k \in 1..Len(out) : out[k][2] = QInt(MaxOf(lons))
        /\ MinOf(ys) # MaxOf(ys) =>
              /\ \E k \in 1..Len(out) : out[k][1] = QInt(MinOf(lats))
              /\ \E k \in 1..Len(out) : out[k][1] = QInt(MaxOf(lats))

\* C23: the bounding-box mapping places the telemetry if and only if the
\* loaded configuration holds no transform; with a transform every sample
\* is placed with the similarity transform; with neither a transform nor a
\* reference polyline the output is the empty sequence.
C23_FallbackSelection ==
    Mapped =>
        LET out == fn.out[1]
        IN  IF "transform" \in DOMAIN fn.cfg
            THEN /\ Len(out) = Len(fn.xs)
                 /\ \A k \in 1..Len(out) :
                       out[k] = Placed(fn.cfg.transform, fn.xs[k], fn.ys[k])
            ELSE IF fn.geo # None
            THEN /\ Len(out) = Len(fn.xs)
                 /\ Len(out) > 0 => InGeoBox(out, fn.xs, fn.ys, fn.geo[1])
            ELSE out = <<>>

\* A trace placed by the bounding-box mapping, no transform being loaded.
C23_Witness ==
    /\ Mapped
    /\ "transform" \notin DOMAIN fn.cfg
    /\ fn.geo # None
    /\ Len(fn.out[1]) >= 2
    /\ MinOf(fn.xs) # MaxOf(fn.xs)

\* C24: no interactive operation (driver selection, trace load, play,
\* pause, seek, speed change, step) modifies or recomputes the loaded
\* similarity transform: it has the same value in every reachable state.
C24_TransformReadOnly == [][cornerTransform' = cornerTransform]_vars

\* The transform as loaded, after a driver selection, a load, a speed
\* change and a step of a running playback.
C24_Witness ==
    /\ cornerTransform.transform = CornerTransform
    /\ selGen >= 1
    /\ appModule # Null
    /\ speed # SpeedDen
    /\ playing
    /\ tStep # None

\* The callback c was scheduled by the effect run of the current render:
\* the application is mounted and playing, and the values c captured are
\* the current trace, positions and index.
Current(c) ==
    /\ mounted
    /\ playing
    /\ c.playing
    /\ c.tel = Telemetry(appModule, tmModule)
    /\ c.app = appModule
    /\ c.idx = currentIndex

\* C25: at most one advancement callback is pending at any time, and a
\* pending callback is never one scheduled before a pause, a change of
\* trace or index, or the teardown: whatever is in the animation-frame
\* queue was scheduled for the current render, so no older callback is
\* left to run a step.
C25_ScheduledCancelled ==
    /\ Cardinality(frames) <= 1
    /\ \A c \in frames : Current(c)
    /\ frames = ToSet(raf)

\* The application was torn down while playing, after a step: nothing is
\* pending.
C25_Witness ==
    /\ ~mounted
    /\ playing
    /\ tStep # None
    /\ frames = {}

\* The colours in which the edge from position i to position i+1 (0-based)
\* is drawn: those of the segments holding the two as neighbours.
EdgeColors(segs, positions, i) ==
    {segs[k].color : k \in {k \in 1..Len(segs) :
        \E j \in 1..(Len(segs[k].points) - 1) :
            /\ segs[k].points[j] = At(positions, i)
            /\ segs[k].points[j + 1] = At(positions, i + 1)}}

\* C26: when positions and brake both have at least 2 entries, the edge
\* from positions[i] to positions[i+1] is drawn in red if and only if
\* brake[i] > 0, and in green otherwise, for every i.
C26_BrakeColouring ==
    (/\ fn # FnIdle
     /\ "brake" \in DOMAIN fn
     /\ fn.segs # None
     /\ Len(fn.positions) >= 2
     /\ Len(fn.brake) >= 2) =>
        \A i \in 0..(Len(fn.positions) - 2) :
            EdgeColors(fn.segs[1], fn.positions, i) =
                {IF InRange(fn.brake, i) /\ At(fn.brake, i) > 0 THEN Red ELSE Green}

\* The play-head time t (line 319) that the pending callback computes if
\* it runs now, in the present state.
PlayHead ==
    LET c == CHOOSE c \in frames : TRUE
        times == Times(c.tel)
        startWall == IF playStartWall # None THEN playStartWall[1] ELSE now
        startTel == IF playStartTel # None THEN playStartTel[1]
                    ELSE TelAt(times, c.idx)
    IN  ClampT(times, TargetTime(startTel, startWall, now, speed))

\* C27: a change of the speed multiplier during playback is continuous: the
\* play-head time computed by the next step, with no wall-clock time
\* elapsed in between, equals the play-head time just before the change.
C27_SpeedChangeContinuous ==
    [][((\E s \in Speeds : SetSpeed(s)) /\ playing /\ frames # {}
            /\ Len(Times((CHOOSE c \in frames : TRUE).tel)) > 0)
          => PlayHead' = PlayHead]_vars

\* The number of samples of a loaded trace.
Samples(tel) == Len(TelData(tel).x)

\* C28: whenever a trace with n >= 1 samples is loaded, currentIndex is a
\* valid sample index of that trace, 0 <= currentIndex <= n - 1, also right
\* after a switch to a trace shorter than the previous one.
C28_IndexValid ==
    LET tel == Telemetry(appModule, tmModule)
    IN  (tel # Null /\ Samples(tel) >= 1) =>
            (currentIndex >= 0 /\ currentIndex <= Samples(tel) - 1)

\* C29: in every reachable state the telemetry trace used by the map and
\* the HUD (TrackMap) and by the analysis charts (App) is either empty or
\* the trace of the currently selected driver.
C29_DisplayedMatchesSelection ==
    /\ Telemetry(appModule, tmModule) \in {Null, selectedDriverCode}
    /\ appModule \in {Null, selectedDriverCode}

\* Playback of a trace with time data is running and enough wall-clock
\* time has passed for the target time to be at or past the last sample.
EndDue ==
    LET tel == Telemetry(appModule, tmModule)
    IN  /\ mounted
        /\ playing
        /\ HasTime(tel)
        /\ Len(Times(tel)) >= 1
        /\ playStartWall # None
        /\ playStartTel # None
        /\ TargetTime(playStartTel[1], playStartWall[1], now, speed)
               >= LastTime(Times(tel))

\* C30: with a trace with time data loaded, playing true and no seek,
\* pause, trace change or teardown, fairly scheduled advancement callbacks
\* bring the play-head to the last sample index n-1 once the time to
\* reach it has passed.
C30_ReachesEnd ==
    EndDue ~> (~EndDue \/ currentIndex = Len(Times(Telemetry(appModule, tmModule))) - 1)

====
